---- MODULE Spec2Model ----
(***************************************************************************)
(* Model of the game session of HandGestureGame (src/main.py): the main    *)
(* loop run(), one iteration per action, with the window reconciliation,  *)
(* the expiry check, collision resolution, draw_ui's time computation and *)
(* the key handler, followed by the code after the loop.                  *)
(*                                                                         *)
(* Conventions.  Python's None is <<>> for a position and Unset (-1) for   *)
(* a number that is never negative.  Sequences are 1-based, so the index   *)
(* check_collision returns is the Python index plus one and NoIndex (0)    *)
(* stands for None.  time.time() is the integer variable clock.  The       *)
(* values random.randint can return, the fingertip positions, the window   *)
(* sizes and the delays are drawn from small sample sets.  A save of the   *)
(* high score is taken to reach the file.  Locals of run() that are dead   *)
(* at the top of the loop (key, collision_index) are not part of the       *)
(* state; over_frame, paused_frame and loaded_high_score are history       *)
(* variables.                                                              *)
(***************************************************************************)
EXTENDS Integers, Sequences, FiniteSets, TLC

VARIABLES
    game_mode,        \* self.game_mode: "normal" or "countdown"
    cap_opened,       \* self.cap.isOpened()
    window_width,     \* self.window_width
    window_height,    \* self.window_height
    score,            \* self.score
    high_score,       \* self.high_score
    start_time,       \* self.start_time
    paused,           \* self.paused
    game_over,        \* self.game_over
    time_left,        \* self.time_left (Unset in normal mode: never assigned)
    targets,          \* self.targets
    finger_pos,       \* self.finger_pos
    results,          \* run()'s local results: the fingertip of the hand the
                      \* detector found when it last ran, None for no hand
    success,          \* run()'s local success
    clock,            \* the wall clock read by time.time()
    highscore_json,   \* the content of highscore.json
    saves,            \* number of calls of save_high_score
    over_frame,       \* history: the last frame read found the game already over
    paused_frame,     \* history: the last frame read found the game paused
                      \* and left it paused
    loaded_high_score,\* history: what load_high_score returned at construction
    pc                \* "loop" while run() is in its loop, "done" after it

vars == <<game_mode, cap_opened, window_width, window_height, score, high_score,
          start_time, paused, game_over, time_left, targets, finger_pos,
          results, success, clock, highscore_json, saves,
          over_frame, paused_frame, loaded_high_score, pc>>

-----------------------------------------------------------------------------
(* Bounds of the model *)

num_targets == 2
MaxScore == 1
MaxClock == 80

(* Program constants *)

margin == 50
min_window == 10
countdown_duration == 60
collision_distance == 30

(* Sentinels *)

None == <<>>
Unset == 0 - 1
NoIndex == 0

(* Sample sets for the inputs *)

XSamples == {50, 74}
YSamples == {50, 60}
CamSizes == {<<200, 200>>}
WindowRects == {<<200, 200>>, <<105, 105>>, <<90, 90>>, <<0, 0>>, None}
Fingertips == {<<68, 74>>}
Hands == {None} \cup Fingertips
StoredFiles == {Unset, 1}
Keys == {"other", "space", "q"}
Delays == {<<0, 0>>, <<40, 0>>, <<0, 40>>}

Max(a, b) == IF a >= b THEN a ELSE b
Abs(a) == IF a >= 0 THEN a ELSE 0 - a

-----------------------------------------------------------------------------
(* load_high_score: the stored value, 0 when the file is absent or unreadable *)
load_high_score(file) == IF file = Unset THEN 0 ELSE file

(* random.randint(lo, hi): the sampled values of lo..hi *)
randint(lo, hi, samples) == {v \in samples : lo <= v /\ v <= hi}

(* The upper end of the range generate_random_target draws from *)
UpperBound(bound) == Max(margin + min_window, bound - margin)

(* generate_random_target: the positions it can return for a window w x h *)
generate_random_target(w, h) ==
    {<<x, y>> : x \in randint(margin, UpperBound(w), XSamples),
                y \in randint(margin, UpperBound(h), YSamples)}

(* np.sqrt on a sum of integer squares, rounded down: for an integer bound d,
   sqrt(n) < d exactly when the rounded-down root is < d *)
RECURSIVE ISqrt(_, _, _)
ISqrt(n, lo, hi) ==
    IF lo >= hi THEN lo
    ELSE LET mid == (lo + hi + 1) \div 2
         IN  IF mid * mid <= n THEN ISqrt(n, mid, hi) ELSE ISqrt(n, lo, mid - 1)

calculate_distance(pos1, pos2) ==
    LET dx == pos1[1] - pos2[1]
        dy == pos1[2] - pos2[2]
    IN  ISqrt(dx * dx + dy * dy, 0, Abs(dx) + Abs(dy))

(* The distances the scan computes, tabulated over the sampled positions *)
distance ==
    [pt \in Fingertips \X (XSamples \X YSamples) |->
        calculate_distance(pt[1], pt[2])] @@ <<>>

(* Mutant: a target at exactly collision_distance is hit *)
Hit_Inclusive(pos, target_pos) == distance[<<pos, target_pos>>] <= collision_distance

(* The test of the scan in check_collision *)
Hit(pos, target_pos) == distance[<<pos, target_pos>>] < collision_distance

RECURSIVE ScanFrom(_, _, _)
ScanFrom(pos, ts, i) ==
    IF i > Len(ts) THEN NoIndex
    ELSE IF Hit(pos, ts[i]) THEN i
    ELSE ScanFrom(pos, ts, i + 1)

(* check_collision: NoIndex without a finger, else the first target hit *)
check_collision(pos, ts) ==
    IF pos = None THEN NoIndex ELSE ScanFrom(pos, ts, 1)

(* Mutant: the resize loop tests the height only *)
OutOfWindow_YOnly(t, w, h) == t[2] > h - margin

(* Mutant: the resize loop regenerates every target *)
OutOfWindow_Always(t, w, h) == TRUE

(* The test of the resize loop: the target lies beyond the new margin *)
OutOfWindow(t, w, h) == t[1] > w - margin \/ t[2] > h - margin

(* The resize loop: every target out of the window is regenerated *)
RECURSIVE Reconciled(_, _, _)
Reconciled(ts, w, h) ==
    IF ts = <<>> THEN {<<>>}
    ELSE LET heads == IF OutOfWindow(Head(ts), w, h)
                      THEN generate_random_target(w, h)
                      ELSE {Head(ts)}
         IN  {<<hd>> \o rest : hd \in heads, rest \in Reconciled(Tail(ts), w, h)}

(* The window query succeeded and gave a positive size *)
ValidRect(rect) == rect # None /\ rect[1] > 0 /\ rect[2] > 0

(* Mutant: the game logic keeps running after the game is over *)
Active_IgnoreOver(p, g) == ~p

(* Mutant: the game logic keeps running while paused *)
Active_IgnorePause(p, g) == ~g

(* Mutant: the game logic runs in every frame *)
Active_Always(p, g) == TRUE

(* The game logic runs in this frame *)
Active(p, g) == ~p /\ ~g

(* Mutant: the expiry test does not look at the mode *)
Expired_AnyMode(mode, tl) == tl <= 0

(* Mutant: the expiry test wants the remaining time below 0 *)
Expired_Strict(mode, tl) == mode = "countdown" /\ tl < 0

(* The expiry test of the game logic *)
Expired(mode, tl) == mode = "countdown" /\ tl <= 0

(* Mutant: the space key toggles the pause flag in every state *)
CanToggle_Always(g) == TRUE

(* Mutant: the space key toggles the pause flag only when the game is over *)
CanToggle_WhenOver(g) == g

(* The key handler's test for toggling the pause flag *)
CanToggle(g) == ~g

(* Mutant: the remaining time is not floored at 0 *)
TimeLeft_NoFloor(e) == countdown_duration - e

(* draw_ui's remaining time *)
TimeLeft(e) == Max(0, countdown_duration - e)

(* Mutant: a hit replaces the first target, whichever was hit *)
Replaced_First(ts, i, t) == [ts EXCEPT ![1] = t]

(* The hit target is replaced by a new one *)
Replaced(ts, i, t) == [ts EXCEPT ![i] = t]

(* Mutant: the pointer of an earlier frame survives a frame without a hand *)
Detected_NoReset(prev, hand) == IF hand = None THEN prev ELSE hand

(* The pointer after the reset and the detection: the fingertip found, None
   when no hand was found, whatever the pointer was before *)
Detected(prev, hand) == hand

(* Mutant: a collision leaves the in-memory high score alone *)
UpdatedHighScore_Never(s, h) == h

(* The in-memory high score after a scored collision *)
UpdatedHighScore(s, h) == IF s > h THEN s ELSE h

(* Mutant: the code after the loop saves the final score *)
FinalHighScore_Score(s, h) == s

(* The in-memory high score after the code that follows the loop *)
FinalHighScore(s, h) == IF s > h THEN s ELSE h

-----------------------------------------------------------------------------
Init ==
    /\ game_mode \in {"normal", "countdown"}
    /\ cap_opened \in BOOLEAN
    /\ \E size \in CamSizes :
          /\ window_width = (IF cap_opened THEN size[1] ELSE 0)
          /\ window_height = (IF cap_opened THEN size[2] ELSE 0)
    /\ score = 0
    /\ highscore_json \in StoredFiles
    /\ high_score = load_high_score(highscore_json)
    /\ clock = 0
    /\ start_time = clock
    /\ paused = FALSE
    /\ game_over = FALSE
    /\ time_left = (IF game_mode = "countdown" THEN countdown_duration ELSE Unset)
    /\ targets \in [1..num_targets -> generate_random_target(window_width, window_height)]
    /\ finger_pos = None
    /\ results = None
    /\ success = FALSE
    /\ saves = 0
    /\ over_frame = FALSE
    /\ paused_frame = FALSE
    /\ loaded_high_score = high_score
    /\ pc = "loop"

(* The code after the loop: the high score is finalised and saved *)
AfterLoop(s, h, n) ==
    /\ high_score' = FinalHighScore(s, h)
    /\ highscore_json' = FinalHighScore(s, h)
    /\ saves' = n + 1
    /\ pc' = "done"

(* while self.cap.isOpened(): the camera never opened *)
LoopExit ==
    /\ pc = "loop"
    /\ ~cap_opened
    /\ AfterLoop(score, high_score, saves)
    /\ UNCHANGED <<game_mode, cap_opened, window_width, window_height, score,
                   start_time, paused, game_over, time_left, targets, finger_pos,
                   results, success, clock, over_frame, paused_frame,
                   loaded_high_score>>

(* self.cap.read() fails: break *)
ReadFail ==
    /\ pc = "loop"
    /\ cap_opened
    /\ success' = FALSE
    /\ AfterLoop(score, high_score, saves)
    /\ UNCHANGED <<game_mode, cap_opened, window_width, window_height, score,
                   start_time, paused, game_over, time_left, targets, finger_pos,
                   results, clock, over_frame, paused_frame, loaded_high_score>>

(* One iteration of the loop with a frame read.  dt[1] is the time that passes
   up to the frame's logic and draw_ui, dt[2] the time from there to the key
   handler; rect is the window query's answer, k the key.  The hand detector
   runs, and yields the fingertip or nothing, only while the game logic runs. *)
Frame(dt, rect, k) ==
    LET now_draw == clock + dt[1]
        now_key == now_draw + dt[2]
        \* the window query and the resize
        resized == ValidRect(rect)
                   /\ (rect[1] # window_width \/ rect[2] # window_height)
        w1 == IF resized THEN rect[1] ELSE window_width
        h1 == IF resized THEN rect[2] ELSE window_height
        \* the expiry check of the game logic
        active == Active(paused, game_over)
        expired == active /\ Expired(game_mode, time_left)
        game_over1 == IF expired THEN TRUE ELSE game_over
        record == expired /\ score > high_score
        high_score1 == IF record THEN score ELSE high_score
        highscore_json1 == IF record THEN high_score1 ELSE highscore_json
        saves1 == IF record THEN saves + 1 ELSE saves
        \* draw_ui
        elapsed == now_draw - start_time
        time_left1 == IF game_mode = "countdown"
                      THEN TimeLeft(elapsed) ELSE time_left
        \* the key handler
        toggled == k = "space" /\ CanToggle(game_over1)
        paused1 == IF toggled THEN ~paused ELSE paused
        resumed == toggled /\ ~paused1 /\ game_mode = "countdown"
        pause_duration == now_key - start_time
                          - (countdown_duration - time_left1)
    IN  /\ pc = "loop"
        /\ cap_opened
        /\ now_key <= MaxClock
        /\ clock' = now_key
        /\ window_width' = w1
        /\ window_height' = h1
        /\ game_over' = game_over1
        /\ over_frame' = game_over
        /\ paused_frame' = (paused /\ paused1)
        /\ success' = TRUE
        /\ time_left' = time_left1
        /\ paused' = paused1
        /\ start_time' = (IF resumed THEN start_time + pause_duration
                          ELSE start_time)
        /\ \E ts1 \in (IF resized THEN Reconciled(targets, w1, h1) ELSE {targets}),
              results1 \in (IF active THEN Hands ELSE {results}) :
           \* the pointer, then collision resolution
           LET finger_pos1 == IF active THEN Detected(finger_pos, results1)
                              ELSE finger_pos
               collision_index == check_collision(finger_pos1, ts1)
               scored == active /\ collision_index # NoIndex
               score1 == IF scored THEN score + 1 ELSE score
               high_score2 == IF scored
                              THEN UpdatedHighScore(score1, high_score1)
                              ELSE high_score1
           IN  /\ score1 <= MaxScore
               /\ finger_pos' = finger_pos1
               /\ results' = results1
               /\ score' = score1
               /\ \E new_target \in (IF scored THEN generate_random_target(w1, h1)
                                     ELSE {None}) :
                     targets' = (IF scored
                                 THEN Replaced(ts1, collision_index, new_target)
                                 ELSE ts1)
               /\ IF k = "q"
                  THEN AfterLoop(score1, high_score2, saves1)
                  ELSE /\ high_score' = high_score2
                       /\ highscore_json' = highscore_json1
                       /\ saves' = saves1
                       /\ pc' = "loop"
        /\ UNCHANGED <<game_mode, cap_opened, loaded_high_score>>

Next ==
    \/ LoopExit
    \/ ReadFail
    \/ \E dt \in Delays, rect \in WindowRects, k \in Keys : Frame(dt, rect, k)

Spec == Init /\ [][Next]_vars

(* A Countdown session without a stored high score *)
LiveInit == Init /\ game_mode = "countdown" /\ highscore_json = Unset

(* run() keeps executing until it has left the loop: it does not stop in
   front of the loop, and while it is in the loop it keeps taking steps.
   The second condition is weak fairness of Next written out: Next is enabled
   exactly while pc = "loop", pc = "done" is final, and every step of the
   specification that changes the state is a step of Next. *)
LiveSpec ==
    /\ LiveInit
    /\ [][Next]_vars
    /\ WF_vars(LoopExit)
    /\ <>[](pc = "loop") => []<><<TRUE>>_vars

-----------------------------------------------------------------------------
(* Vocabulary of the properties *)

(* The step processes a frame: the camera read succeeded *)
FrameRan == pc = "loop" /\ success'

(* The step leaves the window size as it was *)
SameWindow == window_width' = window_width /\ window_height' = window_height

(* A window answer that accounts for the step: the new size when the size
   changed, a failed query when it did not *)
SeenRect == IF SameWindow THEN None ELSE <<window_width', window_height'>>

(* The step is a frame in which key k was read *)
KeyFrame(k) ==
    \E dt \in Delays : clock' = clock + dt[1] + dt[2] /\ Frame(dt, SeenRect, k)

(* Collision resolution as specified: no index without a pointer, else the
   lowest index whose target has dx^2 + dy^2 < 900 *)
InReach(pos, t) ==
    (pos[1] - t[1]) * (pos[1] - t[1]) + (pos[2] - t[2]) * (pos[2] - t[2]) < 900

FirstHit(pos, ts) ==
    IF pos = None \/ ~(\E i \in 1..Len(ts) : InReach(pos, ts[i])) THEN NoIndex
    ELSE CHOOSE i \in 1..Len(ts) :
            /\ InReach(pos, ts[i])
            /\ \A j \in 1..(i - 1) : ~InReach(pos, ts[j])

(* The margin invariant as the spec words it: the 10 px window applies when
   bound - margin <= margin *)
InClaimedRange(v, bound) ==
    IF bound - 50 > 50 THEN 50 <= v /\ v <= bound - 50
    ELSE 50 <= v /\ v <= 60

(* The margin invariant of the code: the upper end is never below 60 *)
InCodeRange(v, bound) == 50 <= v /\ (v <= bound - 50 \/ v <= 60)

-----------------------------------------------------------------------------
(* C1: in Countdown mode the remaining time does not change while the
   session is Paused, so that the value after a resume is the value before
   the pause. *)
C1_PauseFreezesTimeLeft ==
    [][(game_mode = "countdown" /\ paused) => time_left' = time_left]_vars

(* C2: in the frame in which a Running Countdown session turns Over, the
   score stays as it was and, the window being unchanged, so do the targets. *)
C2_ExpiryFrameNotScored ==
    [][(game_mode = "countdown" /\ ~paused /\ ~game_over /\ game_over')
          => (score' = score /\ (SameWindow => targets' = targets))]_vars

(* C3 as claimed: once the session is Over a step leaves the score, the high
   score and every target where they were, whatever the window size. *)
C3_OverFreezesAll ==
    [][game_over => (score' = score /\ high_score' = high_score
                     /\ targets' = targets)]_vars

(* C3 as amended: once the session is Over a step leaves the score and the
   high score where they were, and moves a target only when the window size
   changed and the target lay beyond the margin of the new size. *)
C3_OverFreezesScore ==
    [][game_over =>
          /\ score' = score
          /\ high_score' = high_score
          /\ Len(targets') = Len(targets)
          /\ \A i \in 1..Len(targets) :
                targets'[i] # targets[i] =>
                    /\ ~SameWindow
                    /\ \/ targets[i][1] > window_width' - 50
                       \/ targets[i][2] > window_height' - 50]_vars

(* C3 witness: a frame was processed with the game already over, after a
   point was scored and with the window shrunk. *)
C3_Witness ==
    /\ game_over /\ over_frame /\ pc = "loop"
    /\ score > 0 /\ window_width = 105

(* C4 as claimed: every target lies in [50, bound - 50] on both axes when
   bound - 50 > 50, and in [50, 60] otherwise. *)
C4_MarginAsClaimed ==
    \A i \in 1..Len(targets) :
        /\ InClaimedRange(targets[i][1], window_width)
        /\ InClaimedRange(targets[i][2], window_height)

(* C4 as amended: every target lies in [50, max(60, bound - 50)] on both
   axes, against the current window size. *)
C4_Margin ==
    /\ Len(targets) = num_targets
    /\ \A i \in 1..Len(targets) :
          /\ InCodeRange(targets[i][1], window_width)
          /\ InCodeRange(targets[i][2], window_height)

(* C4 witness: after a resize to 105 x 105 a target sits at y = 60, above
   105 - 50 and inside the 10 px window. *)
C4_Witness ==
    /\ success /\ pc = "loop"
    /\ window_width = 105 /\ window_height = 105
    /\ targets[1][2] = 60

(* C5: when a Countdown session turns Over with a score above the stored
   high score, the high score equals the score afterwards and that value is
   saved in the same step. *)
C5_SaveAtGameOver ==
    [][(game_mode = "countdown" /\ ~game_over /\ game_over'
        /\ score > load_high_score(highscore_json))
          => (high_score' = score' /\ saves' > saves
              /\ highscore_json' = high_score')]_vars

(* C6: a Running Countdown frame whose clock instant gives a remaining time
   of 0 ends Over. *)
C6_ExpiryNotDeferred ==
    [][(FrameRan /\ game_mode = "countdown" /\ ~paused /\ ~game_over
        /\ time_left' <= 0) => game_over']_vars

(* C7: the score is never negative, a step leaves it or adds exactly 1, and
   it adds 1 exactly in the Running frames in which the pointer is in reach
   of a target of the reconciled field. *)
C7_ScoreStep ==
    [][/\ score' >= 0
       /\ score' = score \/ score' = score + 1
       /\ score' = score + 1 =>
             FrameRan /\ ~paused /\ ~game_over /\ finger_pos' # None
       /\ (SameWindow /\ score' = score + 1) =>
             /\ FirstHit(finger_pos', targets) # NoIndex
             /\ \A j \in 1..Len(targets) :
                   j # FirstHit(finger_pos', targets) => targets'[j] = targets[j]
       /\ (FrameRan /\ ~paused /\ ~game_over /\ score' = score) =>
             FirstHit(finger_pos', targets') = NoIndex]_vars

(* C7 witness: a point was scored by a detected pointer. *)
C7_Witness == score = 1 /\ finger_pos # None /\ ~paused /\ pc = "loop"

(* C8: check_collision yields no index without a pointer, and otherwise the
   lowest index whose target is strictly nearer than 30, if any. *)
C8_FirstMatch ==
    /\ check_collision(None, targets) = NoIndex
    /\ check_collision(finger_pos, targets) = FirstHit(finger_pos, targets)
    /\ \A pos \in Fingertips :
          check_collision(pos, targets) = FirstHit(pos, targets)

(* C8 witness: the pointer is at distance exactly 30 from the first target
   and nearer to the second, which is the one returned. *)
C8_Witness ==
    /\ finger_pos = <<68, 74>>
    /\ targets[1] = <<50, 50>>
    /\ targets[2] = <<74, 60>>
    /\ check_collision(finger_pos, targets) = 2

(* C9: a frame with the space key flips the pause flag unless the game is
   over when the key is handled, no other step changes the flag, and an Over
   session stays Over and unpaused. *)
C9_PauseToggle ==
    [][/\ \/ paused' = (IF game_over' THEN paused ELSE ~paused)
          \/ ~KeyFrame("space")
       /\ paused' # paused => KeyFrame("space") /\ ~game_over'
       /\ game_over => game_over' /\ paused' = paused]_vars

(* C9 witness: the space key paused a running session. *)
C9_Witness == paused /\ ~game_over /\ success /\ pc = "loop"

(* C10: the session turns Over only in a frame that starts Running, in
   Countdown mode, with no time left; Normal mode and Paused sessions never
   turn Over. *)
C10_OverOnlyByExpiry ==
    [][(~game_over /\ game_over') =>
          /\ FrameRan
          /\ ~paused
          /\ game_mode = "countdown"
          /\ time_left <= 0]_vars

(* C10 witness: a Countdown session is Over. *)
C10_Witness == game_over /\ game_mode = "countdown" /\ time_left = 0

-----------------------------------------------------------------------------
(* Further vocabulary *)

(* The time draw_ui shows in Normal mode, and run() reports after the loop,
   at the instant of the clock *)
elapsed_time == clock - start_time

(* The step is a frame that starts with the session Running *)
RunningFrame == FrameRan /\ ~paused /\ ~game_over

(* The target lies beyond the margin of the window size the step ends with:
   the test of the resize loop *)
BeyondNewMargin(t) == t[1] > window_width' - 50 \/ t[2] > window_height' - 50

(* The target lies in the range the code draws from, for the window size the
   step ends with *)
InNewRange(t) ==
    InCodeRange(t[1], window_width') /\ InCodeRange(t[2], window_height')

(* The target satisfies the margin invariant as the spec words it, for the
   window size the step ends with *)
InNewClaimedRange(t) ==
    InClaimedRange(t[1], window_width') /\ InClaimedRange(t[2], window_height')

(* C11: when the loop ends, by the quit key, a failed read or a camera that
   never opened, exactly one save is made in that step and none was made
   before, the file holds max(loaded high score, final score), and that is
   never below the loaded high score. *)
C11_ExitSave ==
    [][(pc = "loop" /\ pc' = "done") =>
          /\ saves = 0
          /\ saves' = 1
          /\ highscore_json' = Max(loaded_high_score, score')
          /\ highscore_json' >= loaded_high_score
          /\ high_score' = highscore_json']_vars

(* C11 witness: the loop was left by the quit key in a frame that scored,
   with a score above the loaded high score, and the file holds the score. *)
C11_Witness ==
    /\ pc = "done" /\ success /\ saves = 1
    /\ score = 1 /\ loaded_high_score = 0 /\ highscore_json = 1

(* C12 as claimed: in a Running frame that scores, one index is replaced by
   a position in the range of the current window and every other target
   keeps its position. *)
C12_OnlyHitReplaced ==
    [][(RunningFrame /\ score' = score + 1) =>
          /\ Len(targets') = Len(targets)
          /\ \E i \in 1..Len(targets) :
                /\ InNewRange(targets'[i])
                /\ \A j \in 1..Len(targets) :
                      j # i => targets'[j] = targets[j]]_vars

(* C12 as amended: in a Running frame that scores, the number of targets is
   unchanged and one index i, the first in reach of the pointer when the
   window size is unchanged, gets a position in the range of the current
   window; every other target keeps its position unless the window size
   changed in the frame and the target lay beyond the margin of the new
   size. *)
C12_HitReplaced ==
    [][(RunningFrame /\ score' = score + 1) =>
          /\ Len(targets') = Len(targets)
          /\ \E i \in 1..Len(targets) :
                /\ SameWindow => i = FirstHit(finger_pos', targets)
                /\ InNewRange(targets'[i])
                /\ \A j \in 1..Len(targets) :
                      (j # i /\ targets'[j] # targets[j]) =>
                          ~SameWindow /\ BeyondNewMargin(targets[j])]_vars

(* C12 witness: a point was scored in the full-size window and the pointer
   is at distance 30 from the first target and from the second. *)
C12_Witness ==
    /\ score = 1 /\ pc = "loop" /\ window_width = 200
    /\ finger_pos = <<68, 74>>
    /\ targets[1] = <<50, 50>>
    /\ targets[2] = <<50, 50>>

(* C13 as claimed: in a frame that scores nothing, a target that satisfies
   the margin invariant, in the spec's wording, for the window size the frame
   ends with keeps its position, and a frame with an unchanged window size
   moves no target. *)
C13_ExactlyViolators ==
    [][(FrameRan /\ score' = score) =>
          /\ Len(targets') = Len(targets)
          /\ \A i \in 1..Len(targets) :
                targets'[i] # targets[i] =>
                    ~SameWindow /\ ~InNewClaimedRange(targets[i])]_vars

(* C13 as amended: in a frame that scores nothing, a target moves only when
   the window size changed and the target lay beyond the margin of the new
   size (x > width - 50 or y > height - 50), every target that lay beyond it
   ends in the range of the new size, and a frame with an unchanged window
   size moves no target. *)
C13_Reconciliation ==
    [][(FrameRan /\ score' = score) =>
          /\ Len(targets') = Len(targets)
          /\ \A i \in 1..Len(targets) :
                /\ targets'[i] # targets[i] =>
                      ~SameWindow /\ BeyondNewMargin(targets[i])
                /\ (~SameWindow /\ BeyondNewMargin(targets[i])) =>
                      InNewRange(targets'[i])]_vars

(* C13 witness: the window shrank to 90 x 90, where every target lies beyond
   the margin, and a regenerated target sits at y = 60. *)
C13_Witness ==
    /\ success /\ pc = "loop" /\ score = 0
    /\ window_width = 90 /\ window_height = 90
    /\ targets[1] = <<50, 60>>

(* C14: in Normal mode the elapsed time does not advance while the session
   is Paused, so that its value after a resume is its value before the
   pause. *)
C14_PauseFreezesElapsed ==
    [][(game_mode = "normal" /\ paused) => elapsed_time' = elapsed_time]_vars

(* C15: in Countdown mode the remaining time is always within 0..60 and the
   start instant is never later than the clock, so that the remaining time
   computed at the clock is within 0..60 as well. *)
C15_TimeLeftRange ==
    game_mode = "countdown" =>
        /\ 0 <= time_left /\ time_left <= countdown_duration
        /\ start_time <= clock
        /\ 0 <= TimeLeft(elapsed_time)
        /\ TimeLeft(elapsed_time) <= countdown_duration

(* C15 witness: a resume has moved the start instant and the time has run
   out since. *)
C15_Witness ==
    /\ game_mode = "countdown" /\ start_time > 0 /\ ~paused
    /\ time_left = 0 /\ pc = "loop"

(* C16: a frame that starts Paused leaves the score, the high score and the
   pointer as they were and does not end the game, the session stays Paused
   unless the frame's key is the space key, and a target moves only when the
   window size changed and the target lay beyond the margin of the new size. *)
C16_PausedFrame ==
    [][(FrameRan /\ paused) =>
          /\ score' = score
          /\ high_score' = high_score
          /\ finger_pos' = finger_pos
          /\ results' = results
          /\ game_over' = game_over
          /\ paused' \/ KeyFrame("space")
          /\ Len(targets') = Len(targets)
          /\ \A i \in 1..Len(targets) :
                targets'[i] # targets[i] =>
                    ~SameWindow /\ BeyondNewMargin(targets[i])]_vars

(* C16 witness: a frame was processed while Paused, with a pointer left from
   before the pause within reach of a target. *)
C16_Witness ==
    /\ paused /\ paused_frame /\ pc = "loop"
    /\ check_collision(finger_pos, targets) # NoIndex

(* No frame of the model can advance the clock any more *)
ClockAtBound == clock + 40 > MaxClock

(* The clock is at its bound with less than the countdown's duration
   elapsed: resumes have moved the start instant so far that no frame of the
   model can make the time run out *)
ClockBoundReached == ClockAtBound /\ elapsed_time < countdown_duration

(* C17: in a Countdown session in which frames keep being processed, the
   clock advances as far as the model lets it and the session is not Paused
   forever, the session is eventually Over and stays Over, unless the loop is
   left or the clock reaches its bound before the time has run out. *)
C17_EventuallyOver ==
    ([]<>(~paused) /\ <>ClockAtBound)
        => (<>[]game_over \/ <>(pc = "done") \/ <>ClockBoundReached)

(* C17 witness: a Countdown session that was paused and resumed, and scored,
   has just turned Over. *)
C17_Witness ==
    /\ game_over /\ ~over_frame /\ game_mode = "countdown"
    /\ start_time > 0 /\ score = 1 /\ pc = "loop"

(* C18: a Running frame in which no hand is detected ends with the pointer
   absent and leaves the score and, the window being unchanged, the targets
   as they were; a frame that scores has detected the pointer it ends with. *)
C18_NoStalePointer ==
    [][/\ (RunningFrame /\ results' = None) =>
             /\ finger_pos' = None
             /\ score' = score
             /\ SameWindow => targets' = targets
       /\ score' # score => (results' # None /\ finger_pos' = results')]_vars

(* C18 witness: after a point was scored a Running frame without detection
   has reset the pointer, with a target still in reach of the old one. *)
C18_Witness ==
    /\ score = 1 /\ finger_pos = None /\ results = None
    /\ ~paused /\ ~game_over /\ pc = "loop"
    /\ check_collision(<<68, 74>>, targets) # NoIndex

(* C19: the in-memory high score is never below the score and never below 0,
   and no step lowers it. *)
C19_HighScoreBound ==
    [][/\ high_score >= score /\ high_score >= 0
       /\ high_score' >= score'
       /\ high_score' >= high_score]_vars

(* C19 witness: a collision raised the in-memory high score above the loaded
   one, before any save. *)
C19_Witness ==
    /\ score = 1 /\ high_score = 1 /\ loaded_high_score = 0
    /\ saves = 0 /\ pc = "loop"

(* C20: the pause flag and the game-over flag are never both set. *)
C20_FlagsExclusive == ~(paused /\ game_over)

(* C20 witness: a frame was processed with the game over, in a session that
   was paused and resumed before. *)
C20_Witness ==
    /\ game_over /\ ~paused /\ over_frame
    /\ start_time > 0 /\ score = 0 /\ pc = "loop"

====
